---- MODULE Spec2Model ----
(***************************************************************************)
(* Market-data relay (src/main.py): a producer loop that fans out one      *)
(* fetch task per currency pair, a last-value cache (current_data), a      *)
(* subscriber registry (connected_clients) and one connection handler per  *)
(* websocket.  asyncio runs one task at a time; tasks interleave only at   *)
(* their await points, so every action below is the code between two       *)
(* awaits of one task.                                                     *)
(***************************************************************************)
EXTENDS Integers, Sequences, FiniteSets, TLC

\* ------------------------------------------------------------------ bounds
NumClients == 2
MaxCycle == 1
FetchClients == 1
FetchCycles == 2
LiveClients == 1
LiveCycles == 2
MaxVal == 12
MaxEntries == 11

\* --------------------------------------------------------- configuration
ORDER_BOOK_LIMIT == 10

\* The first pairs of the configured list; the model monitors these.
CURRENCY_PAIRS == <<"BTC/IDR", "USDT/IDR">>

Symbols == {CURRENCY_PAIRS[i] : i \in 1..Len(CURRENCY_PAIRS)}
Max(a, b) == IF a > b THEN a ELSE b
Clients == 1..Max(Max(NumClients, FetchClients), LiveClients)

\* ------------------------------------------------------- upstream inputs
\* A JSON field of the upstream body: absent, a numeric string, or a string
\* float() rejects.
Absent == [present |-> FALSE, numeric |-> FALSE, val |-> 0]
Num(n) == [present |-> TRUE, numeric |-> TRUE, val |-> n]
NaN == [present |-> TRUE, numeric |-> FALSE, val |-> 0]

TickerKinds == {"ok", "http_error", "timeout", "no_ticker", "bad_number"}

OkTicker ==
    [timed_out |-> FALSE, status |-> 200, has_ticker |-> TRUE,
     last |-> Num(110), high |-> Num(120), low |-> Num(100),
     vol_idr |-> Num(5000), volume |-> Absent]

\* The response the ticker endpoint gives, by kind.
TickerResponse(kind) ==
    CASE kind = "ok" -> OkTicker
      [] kind = "http_error" -> [OkTicker EXCEPT !.status = 500]
      [] kind = "timeout" -> [OkTicker EXCEPT !.timed_out = TRUE]
      [] kind = "no_ticker" -> [OkTicker EXCEPT !.has_ticker = FALSE]
      [] kind = "bad_number" -> [OkTicker EXCEPT !.last = NaN]

DepthKinds ==
    {"ok", "http_error", "timeout", "bad_json", "no_buy", "no_sell",
     "bad_buy_entry", "bad_sell_entry"}
DepthErrorKinds ==
    {"http_error", "timeout", "bad_json", "bad_buy_entry", "bad_sell_entry"}

OkDepth ==
    [timed_out |-> FALSE, status |-> 200, json_ok |-> TRUE,
     has_buy |-> TRUE, buy_ok |-> TRUE,
     buy |-> << <<1, 5>>, <<3, 5>>, <<2, 5>> >>,
     has_sell |-> TRUE, sell_ok |-> TRUE,
     sell |-> << <<6, 5>>, <<4, 5>>, <<5, 5>> >>]

\* The response the depth endpoint gives, by kind.  has_buy: the body has a
\* 'buy' key holding a list; buy_ok: every entry is a pair float() accepts.
DepthResponse(kind) ==
    CASE kind = "ok" -> OkDepth
      [] kind = "http_error" -> [OkDepth EXCEPT !.status = 500]
      [] kind = "timeout" -> [OkDepth EXCEPT !.timed_out = TRUE]
      [] kind = "bad_json" -> [OkDepth EXCEPT !.json_ok = FALSE]
      [] kind = "no_buy" -> [OkDepth EXCEPT !.has_buy = FALSE]
      [] kind = "no_sell" -> [OkDepth EXCEPT !.has_sell = FALSE]
      [] kind = "bad_buy_entry" -> [OkDepth EXCEPT !.buy_ok = FALSE]
      [] kind = "bad_sell_entry" -> [OkDepth EXCEPT !.sell_ok = FALSE]

\* ------------------------------------------------------- pure operators
\* float(ticker.get(key, 0.0)): the default for an absent key, the number
\* of a numeric string; a non-numeric string raises ValueError.
FloatRaises(field) == field.present /\ ~field.numeric
FloatOf(field) == IF field.present THEN field.val ELSE 0

\* A volume lookup that asks for 'volume' first.
VolumeFieldVolumeFirst(t) ==
    IF t.volume.present THEN t.volume
    ELSE IF t.vol_idr.present THEN t.vol_idr ELSE Absent

\* float(ticker.get('vol_idr', ticker.get('volume', 0.0)))
VolumeField(t) ==
    IF t.vol_idr.present THEN t.vol_idr
    ELSE IF t.volume.present THEN t.volume ELSE Absent

\* n/d rounded to the nearest integer (d > 0).
RoundDiv(n, d) == (2 * n + d) \div (2 * d)

\* A percentage change that tries the high basis first.
PercentageChangeHighFirst(last, low, high) ==
    IF last > 0 /\ high > 0 THEN RoundDiv((last - high) * 10000, high)
    ELSE IF last > 0 /\ low > 0 THEN RoundDiv((last - low) * 10000, low)
    ELSE 0

\* percentage_change in hundredths of a percent, as "{:.2f}" prints it.
PercentageChange(last, low, high) ==
    IF last > 0 /\ low > 0 THEN RoundDiv((last - low) * 10000, low)
    ELSE IF last > 0 /\ high > 0 THEN RoundDiv((last - high) * 10000, high)
    ELSE 0

\* A ticker stage without the 'ticker' key test and with lenient parsing.
TickerStageLenient(resp) ==
    IF resp.timed_out THEN "TimeoutError"
    ELSE IF resp.status >= 400 THEN "ClientError"
    ELSE "none"

\* How the ticker stage (lines 56-77) ends: "none" (values computed),
\* "return" (line 62) or the exception it raises.
TickerStage(resp) ==
    IF resp.timed_out THEN "TimeoutError"
    ELSE IF resp.status >= 400 THEN "ClientError"
    ELSE IF ~resp.has_ticker THEN "return"
    ELSE IF FloatRaises(resp.last) \/ FloatRaises(resp.high)
            \/ FloatRaises(resp.low) \/ FloatRaises(VolumeField(resp))
         THEN "ValueError"
    ELSE "none"

RECURSIVE InsertAsc(_, _)
InsertAsc(x, sorted) ==
    IF sorted = <<>> THEN <<x>>
    ELSE IF x[1] < Head(sorted)[1] THEN <<x>> \o sorted
    ELSE <<Head(sorted)>> \o InsertAsc(x, Tail(sorted))

RECURSIVE InsertDesc(_, _)
InsertDesc(x, sorted) ==
    IF sorted = <<>> THEN <<x>>
    ELSE IF x[1] > Head(sorted)[1] THEN <<x>> \o sorted
    ELSE <<Head(sorted)>> \o InsertDesc(x, Tail(sorted))

\* sorted(entries, key=price, reverse=desc): a stable sort.
RECURSIVE SortedBy(_, _, _)
SortedBy(entries, desc, acc) ==
    IF entries = <<>> THEN acc
    ELSE SortedBy(Tail(entries), desc,
                  IF desc THEN InsertDesc(Head(entries), acc)
                  ELSE InsertAsc(Head(entries), acc))

Take(seq, n) == SubSeq(seq, 1, IF Len(seq) < n THEN Len(seq) ELSE n)

\* A buy side cut to the limit without sorting.
BuyOrdersUnsorted(entries) == Take(entries, ORDER_BOOK_LIMIT)

BuyOrders(entries) == Take(SortedBy(entries, TRUE, <<>>), ORDER_BOOK_LIMIT)
SellOrders(entries) == Take(SortedBy(entries, FALSE, <<>>), ORDER_BOOK_LIMIT)

\* A depth stage that builds the two sides only when the body has both.
DepthStageBothSides(resp) ==
    IF resp.timed_out
    THEN [exc |-> "TimeoutError", buy_orders |-> <<>>, sell_orders |-> <<>>]
    ELSE IF resp.status >= 400
    THEN [exc |-> "ClientError", buy_orders |-> <<>>, sell_orders |-> <<>>]
    ELSE IF ~resp.json_ok
    THEN [exc |-> "JSONDecodeError", buy_orders |-> <<>>, sell_orders |-> <<>>]
    ELSE IF ~resp.has_buy \/ ~resp.has_sell
    THEN [exc |-> "none", buy_orders |-> <<>>, sell_orders |-> <<>>]
    ELSE IF ~resp.buy_ok \/ ~resp.sell_ok
    THEN [exc |-> "ValueError", buy_orders |-> <<>>, sell_orders |-> <<>>]
    ELSE [exc |-> "none", buy_orders |-> BuyOrders(resp.buy),
          sell_orders |-> SellOrders(resp.sell)]

\* The depth stage (lines 81-97): the exception it raises ("none" if it
\* runs to the end) and the two sides as they stand when it ends.  buy_orders
\* is assigned before the sell side is parsed.
DepthStage(resp) ==
    IF resp.timed_out
    THEN [exc |-> "TimeoutError", buy_orders |-> <<>>, sell_orders |-> <<>>]
    ELSE IF resp.status >= 400
    THEN [exc |-> "ClientError", buy_orders |-> <<>>, sell_orders |-> <<>>]
    ELSE IF ~resp.json_ok
    THEN [exc |-> "JSONDecodeError", buy_orders |-> <<>>, sell_orders |-> <<>>]
    ELSE IF resp.has_buy /\ ~resp.buy_ok
    THEN [exc |-> "ValueError", buy_orders |-> <<>>, sell_orders |-> <<>>]
    ELSE LET buys == IF resp.has_buy THEN BuyOrders(resp.buy) ELSE <<>>
         IN  IF resp.has_sell /\ ~resp.sell_ok
             THEN [exc |-> "ValueError", buy_orders |-> buys, sell_orders |-> <<>>]
             ELSE [exc |-> "none", buy_orders |-> buys,
                   sell_orders |-> IF resp.has_sell THEN SellOrders(resp.sell)
                                   ELSE <<>>]

\* A depth try whose first clause is missing.
DepthCatchesNoClientError(exc) ==
    exc \in {"JSONDecodeError", "TypeError", "IndexError", "ValueError"}

\* The except clauses of the depth try (lines 99-104).
DepthCatches(exc) ==
    exc \in {"ClientError", "JSONDecodeError", "TypeError", "IndexError", "ValueError"}

\* An outer try without its last clause.
FetchCatchesNamed(exc) ==
    exc \in {"ClientError", "JSONDecodeError", "TypeError", "ValueError"}

\* The except clauses of the outer try (lines 139-148); the last one is
\* `except Exception`.
FetchCatches(exc) ==
    exc \in {"ClientError", "JSONDecodeError", "TypeError", "ValueError",
             "TimeoutError", "KeyError", "WebSocketDisconnect", "RuntimeError"}

\* The payload of lines 107-119; the timestamp is the cycle's clock reading.
Payload(symbol, t, depth, now) ==
    [symbol |-> symbol,
     price |-> FloatOf(t.last),
     high_price |-> FloatOf(t.high),
     low_price |-> FloatOf(t.low),
     percentage_change |->
         PercentageChange(FloatOf(t.last), FloatOf(t.low), FloatOf(t.high)),
     volume_24h |-> FloatOf(VolumeField(t)),
     buy_orders |-> depth.buy_orders,
     sell_orders |-> depth.sell_orders,
     timestamp |-> now]

\* A cache that keeps the first snapshot of a pair.
UpdateCacheKeepFirst(cache, symbol, p) ==
    IF cache[symbol] = <<>> THEN [cache EXCEPT ![symbol] = <<p>>] ELSE cache

\* A fetch that publishes without writing the cache.
UpdateCacheSkipped(cache, symbol, p) == cache

\* current_data[symbol] = payload (line 120).  A cache entry is <<>> for the
\* empty dict and <<payload>> otherwise.
UpdateCache(cache, symbol, p) == [cache EXCEPT ![symbol] = <<p>>]

\* A replay without the emptiness test.
HasCacheAlways(cache, symbol) == TRUE

\* if current_data[symbol] (line 190)
HasCache(cache, symbol) == cache[symbol] # <<>>

\* The replay loop (lines 189-191) from position i on: the index of the next
\* pair whose message is sent, Len + 1 when the loop ends.
RECURSIVE NextReplay(_, _)
NextReplay(cache, i) ==
    IF i > Len(CURRENCY_PAIRS) THEN i
    ELSE IF HasCache(cache, CURRENCY_PAIRS[i]) THEN i
    ELSE NextReplay(cache, i + 1)

\* ------------------------------------------------------------------ state
VARIABLES
    ppc,                \* producer_task: "init", "gather", "sleep", "dead"
    cycle,              \* number of the cycle the producer is in
    fpc,                \* per pair, the fetch task: "idle", "ticker", "depth",
                        \* "sending", "done", "raised"
    message,            \* per pair, the fetch's payload: <<>> before line 107
    pending,            \* per pair, the clients of list(connected_clients)
                        \* the broadcast loop has not reached yet
    cur,                \* per pair, the client whose send_text is awaited
    caught,             \* per pair, the exception the outer try caught
    ticker_in,          \* per pair, the kind of this cycle's ticker response
    depth_in,           \* per pair, the kind of this cycle's depth response
    current_data,       \* the cache
    connected_clients,  \* the registry
    cpc,                \* per client, websocket_endpoint: "init", "replay",
                        \* "open", "closed"
    alive,              \* per client, the transport is up
    ridx,               \* per client, position of the replay loop
    replayed,           \* per client, the messages its replay loop has sent
    cached_at_reg,      \* per client in its replay loop, the pairs that were
                        \* cached when it registered
    cycle_start_data,   \* the cache when the cycle started
    last_ticker_ok,     \* per pair, the last cycle whose ticker stage succeeded
    arg,                \* the upstream body a parsing stage is applied to
    res,                \* what the stage made of it: <<>> before it ran
    recording,          \* the sends are recorded in the two variables below
    last_sent,          \* per client and pair, the timestamp of the last
                        \* snapshot a send to the client carried
    live_count          \* per client and pair, the broadcast sends of the
                        \* cycle to the client

fetch_vars == <<fpc, message, pending, cur, caught, ticker_in, depth_in>>
client_vars == <<cpc, alive, ridx, replayed, cached_at_reg>>
relay_vars ==
    <<ppc, cycle, fpc, message, pending, cur, caught, ticker_in, depth_in,
      current_data, connected_clients, cpc, alive, ridx, replayed,
      cached_at_reg, cycle_start_data, last_ticker_ok>>
stage_vars == <<arg, res>>
sent_vars == <<recording, last_sent, live_count>>
vars == <<relay_vars, stage_vars, sent_vars>>

RelayInit ==
    /\ ppc = "init"
    /\ cycle = 0
    /\ fpc = [s \in Symbols |-> "idle"]
    /\ message = [s \in Symbols |-> <<>>]
    /\ pending = [s \in Symbols |-> {}]
    /\ cur = [s \in Symbols |-> 0]
    /\ caught = [s \in Symbols |-> "none"]
    /\ ticker_in = [s \in Symbols |-> "none"]
    /\ depth_in = [s \in Symbols |-> "none"]
    /\ current_data = [s \in Symbols |-> <<>>]
    /\ connected_clients = {}
    /\ cpc = [c \in Clients |-> "init"]
    /\ alive = [c \in Clients |-> FALSE]
    /\ ridx = [c \in Clients |-> 0]
    /\ replayed = [c \in Clients |-> <<>>]
    /\ cached_at_reg = [c \in Clients |-> {}]
    /\ cycle_start_data = [s \in Symbols |-> <<>>]
    /\ last_ticker_ok = [s \in Symbols |-> 0]

\* No stage under test.
StageIdle == arg = <<>> /\ res = <<>>

\* Nothing sent yet.
SentInit ==
    /\ last_sent = [c \in Clients |-> [s \in Symbols |-> 0]]
    /\ live_count = [c \in Clients |-> [s \in Symbols |-> 0]]

Init == RelayInit /\ StageIdle /\ SentInit /\ recording = FALSE

\* A step that calls no send_text.
NoSend == UNCHANGED <<last_sent, live_count>>

\* send_text is called on client c with the snapshot of pair s stamped ts, by
\* the broadcast loop (live) or by the replay loop.
RecordSend(c, s, ts, live) ==
    IF recording
    THEN /\ last_sent' = [last_sent EXCEPT ![c][s] = ts]
         /\ live_count' = IF live THEN [live_count EXCEPT ![c][s] = @ + 1]
                          ELSE live_count
    ELSE NoSend

\* The timestamp a cache entry carries, 0 for the empty one.
Stamp(entry) == IF entry = <<>> THEN 0 ELSE entry[1].timestamp

\* ---------------------------------------------------------- producer_task
\* Lines 162-164: gather() starts one fetch per pair; each runs to its first
\* await, the ticker request.
StartCycle(max) ==
    /\ ppc \in {"init", "sleep"}
    /\ cycle < max
    /\ ppc' = "gather"
    /\ cycle' = cycle + 1
    /\ fpc' = [s \in Symbols |-> "ticker"]
    /\ live_count' = [c \in Clients |-> [s \in Symbols |-> 0]]
    /\ UNCHANGED <<message, pending, cur, caught, ticker_in, depth_in,
                   current_data, connected_clients, client_vars,
                   cycle_start_data, last_ticker_ok, stage_vars, recording,
                   last_sent>>

\* A gather() that returns as soon as one fetch has returned.
GatherDoneFirst ==
    /\ ppc = "gather"
    /\ \E s \in Symbols : fpc[s] \in {"done", "raised"}
    /\ ppc' = IF \E s \in Symbols : fpc[s] = "raised" THEN "dead" ELSE "sleep"
    /\ fpc' = [s \in Symbols |-> "idle"]
    /\ message' = [s \in Symbols |-> <<>>]
    /\ pending' = [s \in Symbols |-> {}]
    /\ caught' = [s \in Symbols |-> "none"]
    /\ ticker_in' = [s \in Symbols |-> "none"]
    /\ depth_in' = [s \in Symbols |-> "none"]
    /\ cycle_start_data' = current_data
    /\ UNCHANGED <<cycle, cur, current_data, connected_clients, client_vars,
                   last_ticker_ok, stage_vars, sent_vars>>

\* Lines 164-165: gather() returns when every fetch has returned, and raises
\* what a fetch raised; then the loop sleeps.  The fetch tasks and their
\* locals are gone.
GatherDone ==
    /\ ppc = "gather"
    /\ \A s \in Symbols : fpc[s] \in {"done", "raised"}
    /\ ppc' = IF \E s \in Symbols : fpc[s] = "raised" THEN "dead" ELSE "sleep"
    /\ fpc' = [s \in Symbols |-> "idle"]
    /\ message' = [s \in Symbols |-> <<>>]
    /\ pending' = [s \in Symbols |-> {}]
    /\ caught' = [s \in Symbols |-> "none"]
    /\ ticker_in' = [s \in Symbols |-> "none"]
    /\ depth_in' = [s \in Symbols |-> "none"]
    /\ cycle_start_data' = current_data
    /\ UNCHANGED <<cycle, cur, current_data, connected_clients, client_vars,
                   last_ticker_ok, stage_vars, sent_vars>>

\* ----------------------------------------------- fetch_and_broadcast_data
\* An exception reaches the outer try (lines 139-148).
FetchExcept(s, exc) ==
    /\ fpc' = [fpc EXCEPT ![s] = IF FetchCatches(exc) THEN "done" ELSE "raised"]
    /\ caught' = [caught EXCEPT ![s] = exc]

\* A broadcast loop that keeps the client it sends to in its list.
ContinueBroadcastAgain(s, rest) ==
    IF rest = {}
    THEN /\ fpc' = [fpc EXCEPT ![s] = "done"]
         /\ cur' = [cur EXCEPT ![s] = 0]
         /\ pending' = [pending EXCEPT ![s] = {}]
         /\ NoSend
    ELSE \E c \in rest :
            /\ fpc' = [fpc EXCEPT ![s] = "sending"]
            /\ cur' = [cur EXCEPT ![s] = c]
            /\ pending' = [pending EXCEPT ![s] = rest]
            /\ RecordSend(c, s, Stamp(message'[s]), TRUE)

\* The broadcast loop (lines 129-131) goes on over `rest`: it ends, or it
\* calls send_text on the next client and awaits.
ContinueBroadcast(s, rest) ==
    IF rest = {}
    THEN /\ fpc' = [fpc EXCEPT ![s] = "done"]
         /\ cur' = [cur EXCEPT ![s] = 0]
         /\ pending' = [pending EXCEPT ![s] = {}]
         /\ NoSend
    ELSE \E c \in rest :
            /\ fpc' = [fpc EXCEPT ![s] = "sending"]
            /\ cur' = [cur EXCEPT ![s] = c]
            /\ pending' = [pending EXCEPT ![s] = rest \ {c}]
            /\ RecordSend(c, s, Stamp(message'[s]), TRUE)

\* Lines 56-77: the ticker response arrives.
TickerDone(s, kinds) ==
    /\ fpc[s] = "ticker"
    /\ \E kind \in kinds :
         LET r == TickerStage(TickerResponse(kind))
         IN  /\ ticker_in' = [ticker_in EXCEPT ![s] = kind]
             /\ IF r = "none"
                THEN /\ fpc' = [fpc EXCEPT ![s] = "depth"]
                     /\ last_ticker_ok' = [last_ticker_ok EXCEPT ![s] = cycle]
                     /\ UNCHANGED caught
                ELSE IF r = "return"
                THEN /\ fpc' = [fpc EXCEPT ![s] = "done"]
                     /\ UNCHANGED <<caught, last_ticker_ok>>
                ELSE /\ FetchExcept(s, r)
                     /\ UNCHANGED last_ticker_ok
    /\ UNCHANGED <<ppc, cycle, message, pending, cur, depth_in, current_data,
                   connected_clients, client_vars, cycle_start_data,
                   stage_vars, sent_vars>>

\* Lines 81-131: the depth response arrives; the payload is built, cached
\* and the broadcast loop starts over a copy of the registry.
DepthDone(s, kinds) ==
    /\ fpc[s] = "depth"
    /\ \E kind \in kinds :
         LET d == DepthStage(DepthResponse(kind))
             p == Payload(s, TickerResponse(ticker_in[s]), d, cycle)
         IN  /\ depth_in' = [depth_in EXCEPT ![s] = kind]
             /\ IF d.exc # "none" /\ ~DepthCatches(d.exc)
                THEN /\ FetchExcept(s, d.exc)
                     /\ UNCHANGED <<message, pending, cur, current_data>>
                     /\ NoSend
                ELSE /\ message' = [message EXCEPT ![s] = <<p>>]
                     /\ current_data' = UpdateCache(current_data, s, p)
                     /\ ContinueBroadcast(s, connected_clients)
                     /\ UNCHANGED caught
    /\ UNCHANGED <<ppc, cycle, ticker_in, connected_clients, client_vars,
                   cycle_start_data, last_ticker_ok, stage_vars, recording>>

\* connected_clients.remove(client_ws) raises KeyError when the client is
\* not in the set (lines 134, 137).
RemoveRaises(registry, c) == c \notin registry

\* Lines 131-137: the awaited send_text returns or raises; on a raise both
\* except clauses remove the client.
SendReturn(s) ==
    /\ fpc[s] = "sending"
    /\ UNCHANGED <<ppc, cycle, message, ticker_in, depth_in, current_data,
                   client_vars, cycle_start_data, last_ticker_ok, stage_vars,
                   recording>>
    /\ LET c == cur[s]
       IN  IF alive[c]
           THEN /\ ContinueBroadcast(s, pending[s])
                /\ UNCHANGED <<caught, connected_clients>>
           ELSE IF RemoveRaises(connected_clients, c)
           THEN /\ FetchExcept(s, "KeyError")
                /\ cur' = [cur EXCEPT ![s] = 0]
                /\ UNCHANGED <<pending, connected_clients>>
                /\ NoSend
           ELSE /\ connected_clients' = connected_clients \ {c}
                /\ ContinueBroadcast(s, pending[s])
                /\ UNCHANGED caught

\* ----------------------------------------------------- websocket_endpoint
\* The replay loop (lines 189-191) goes on from position i: it sends the next
\* cached pair and awaits, or it ends and the handler awaits receive_text.
ContinueReplay(c, i, cached) ==
    LET j == NextReplay(current_data, i)
    IN  IF j > Len(CURRENCY_PAIRS)
        THEN /\ cpc' = [cpc EXCEPT ![c] = "open"]
             /\ ridx' = [ridx EXCEPT ![c] = 0]
             /\ replayed' = [replayed EXCEPT ![c] = <<>>]
             /\ cached_at_reg' = [cached_at_reg EXCEPT ![c] = {}]
             /\ NoSend
        ELSE /\ cpc' = [cpc EXCEPT ![c] = "replay"]
             /\ ridx' = [ridx EXCEPT ![c] = j]
             /\ cached_at_reg' = [cached_at_reg EXCEPT ![c] = cached]
             /\ replayed' = [replayed EXCEPT
                   ![c] = Append(@, [symbol |-> CURRENCY_PAIRS[j],
                                     empty |-> current_data[CURRENCY_PAIRS[j]] = <<>>])]
             /\ RecordSend(c, CURRENCY_PAIRS[j],
                           Stamp(current_data[CURRENCY_PAIRS[j]]), FALSE)

\* A finally clause that leaves the registry alone.
DiscardClientNever(registry, c) == registry

\* if websocket in connected_clients: connected_clients.remove(websocket)
DiscardClient(registry, c) == IF c \in registry THEN registry \ {c} ELSE registry

\* Lines 201-209: the handler leaves through its finally clause.
CloseHandler(c) ==
    /\ connected_clients' = DiscardClient(connected_clients, c)
    /\ cpc' = [cpc EXCEPT ![c] = "closed"]
    /\ ridx' = [ridx EXCEPT ![c] = 0]
    /\ replayed' = [replayed EXCEPT ![c] = <<>>]
    /\ cached_at_reg' = [cached_at_reg EXCEPT ![c] = {}]
    /\ NoSend

\* Lines 184-191: a connection is accepted and registered; the replay loop
\* runs to its first send.  Clients are numbered in the order they connect.
Accept(c, n) ==
    /\ cpc[c] = "init"
    /\ c <= n
    /\ \A d \in Clients : d < c => cpc[d] # "init"
    /\ alive' = [alive EXCEPT ![c] = TRUE]
    /\ connected_clients' = connected_clients \cup {c}
    /\ ContinueReplay(c, 1, {s \in Symbols : current_data[s] # <<>>})
    /\ UNCHANGED <<ppc, cycle, fetch_vars, current_data,
                   cycle_start_data, last_ticker_ok, stage_vars, recording>>

\* Line 191: the awaited replay send returns or raises.
ReplayReturn(c) ==
    /\ cpc[c] = "replay"
    /\ IF alive[c]
       THEN /\ ContinueReplay(c, ridx[c] + 1, cached_at_reg[c])
            /\ UNCHANGED connected_clients
       ELSE CloseHandler(c)
    /\ UNCHANGED <<ppc, cycle, fetch_vars, current_data, alive,
                   cycle_start_data, last_ticker_ok, stage_vars, recording>>

\* The peer goes away or the transport fails.
ClientDrop(c) ==
    /\ cpc[c] \in {"replay", "open"}
    /\ alive[c]
    /\ alive' = [alive EXCEPT ![c] = FALSE]
    /\ UNCHANGED <<ppc, cycle, fetch_vars, current_data, connected_clients,
                   cpc, ridx, replayed, cached_at_reg,
                   cycle_start_data, last_ticker_ok, stage_vars, sent_vars>>

\* Line 200: receive_text raises on a closed connection.
HandlerClose(c) ==
    /\ cpc[c] = "open"
    /\ ~alive[c]
    /\ CloseHandler(c)
    /\ UNCHANGED <<ppc, cycle, fetch_vars, current_data, alive,
                   cycle_start_data, last_ticker_ok, stage_vars, recording>>

\* The whole relay: registry, replay and broadcast under connects and drops.
RelayTicker == {"ok", "http_error"}
RelayDepth == {"ok", "timeout"}

Next ==
    \/ StartCycle(MaxCycle)
    \/ GatherDone
    \/ \E s \in Symbols : TickerDone(s, RelayTicker)
    \/ \E s \in Symbols : DepthDone(s, RelayDepth)
    \/ \E s \in Symbols : SendReturn(s)
    \/ \E c \in Clients : Accept(c, NumClients)
    \/ \E c \in Clients : ReplayReturn(c)
    \/ \E c \in Clients : ClientDrop(c)
    \/ \E c \in Clients : HandlerClose(c)

Spec == Init /\ [][Next]_vars

\* The fetch pipeline under every kind of upstream response.
NextFetch ==
    \/ StartCycle(FetchCycles)
    \/ GatherDone
    \/ \E s \in Symbols : TickerDone(s, TickerKinds)
    \/ \E s \in Symbols : DepthDone(s, {"ok"} \cup DepthErrorKinds)
    \/ \E s \in Symbols : SendReturn(s)
    \/ \E c \in Clients : Accept(c, FetchClients)
    \/ \E c \in Clients : ReplayReturn(c)

SpecFetch == Init /\ [][NextFetch]_vars

\* The relay under the scheduling the deployment gives it: the event loop
\* runs every task that is ready; a request ends within timeout=5 (lines 56,
\* 85) with a response or an exception; send_text ends when the frame is
\* written or the connection is declared lost (the server's keepalive).
\* Nothing makes a client connect, leave or read.
LiveTicker == {"ok", "timeout"}
LiveDepth == {"ok", "timeout", "bad_json"}

NextLive ==
    \/ StartCycle(LiveCycles)
    \/ GatherDone
    \/ \E s \in Symbols : TickerDone(s, LiveTicker)
    \/ \E s \in Symbols : DepthDone(s, LiveDepth)
    \/ \E s \in Symbols : SendReturn(s)
    \/ \E c \in Clients : Accept(c, LiveClients)
    \/ \E c \in Clients : ReplayReturn(c)
    \/ \E c \in Clients : ClientDrop(c)
    \/ \E c \in Clients : HandlerClose(c)

\* A step of the producer or of one of its fetches.  Such a step stays
\* enabled until it is taken, so it is enough that the event loop does not
\* leave all of them waiting for ever.
ProducerStep ==
    \/ StartCycle(LiveCycles)
    \/ GatherDone
    \/ \E s \in Symbols : TickerDone(s, LiveTicker)
    \/ \E s \in Symbols : DepthDone(s, LiveDepth)
    \/ \E s \in Symbols : SendReturn(s)

Scheduling == WF_vars(ProducerStep)

SpecLive == Init /\ [][NextLive]_vars /\ Scheduling

\* The relay with every send recorded at the moment it is issued.
InitSent == RelayInit /\ StageIdle /\ SentInit /\ recording = TRUE

SentTicker == {"ok", "timeout"}

NextSent ==
    \/ StartCycle(LiveCycles)
    \/ GatherDone
    \/ \E s \in Symbols : TickerDone(s, SentTicker)
    \/ \E s \in Symbols : DepthDone(s, {"ok"})
    \/ \E s \in Symbols : SendReturn(s)
    \/ \E c \in Clients : Accept(c, LiveClients)
    \/ \E c \in Clients : ReplayReturn(c)
    \/ \E c \in Clients : ClientDrop(c)
    \/ \E c \in Clients : HandlerClose(c)

SpecSent == InitSent /\ [][NextSent]_vars

\* The relay with depth bodies that lack a side or hold it in another shape.
ShapeDepth == {"ok", "no_buy", "no_sell"}

NextShape ==
    \/ StartCycle(FetchCycles)
    \/ GatherDone
    \/ \E s \in Symbols : TickerDone(s, {"ok"})
    \/ \E s \in Symbols : DepthDone(s, ShapeDepth)
    \/ \E s \in Symbols : SendReturn(s)
    \/ \E c \in Clients : Accept(c, FetchClients)
    \/ \E c \in Clients : ReplayReturn(c)

SpecShape == Init /\ [][NextShape]_vars

\* ------------------------------------------------ the parsing stages alone
\* The ticker stage and the payload (lines 56-77, 107-119) applied to one
\* ticker body; the relay stands still.
TickerFields == {Absent} \cup {Num(n) : n \in 0..MaxVal}
VolumeFields == {Absent, NaN, Num(3000), Num(5000)}

TickerBodies ==
    {[OkTicker EXCEPT !.last = l, !.low = lo, !.high = h,
                      !.vol_idr = vi, !.volume = vo] :
        l \in TickerFields, lo \in TickerFields, h \in TickerFields,
        vi \in VolumeFields, vo \in VolumeFields}

InitTicker ==
    /\ RelayInit /\ SentInit /\ recording = FALSE
    /\ arg \in TickerBodies
    /\ res = <<>>

ParseTicker ==
    /\ res = <<>>
    /\ LET exc == TickerStage(arg)
       IN  res' = <<[exc |-> exc,
                     payload |->
                         IF exc = "none"
                         THEN <<Payload(CURRENCY_PAIRS[1], arg,
                                        DepthStage(OkDepth), 1)>>
                         ELSE <<>>]>>
    /\ UNCHANGED <<relay_vars, arg, sent_vars>>

NextTicker == ParseTicker

SpecTicker == InitTicker /\ [][NextTicker]_vars

\* The depth stage and the payload (lines 81-104, 107-119) applied to one
\* depth body whose two sides hold the same entries.
Entries == {<<1, 5>>, <<2, 5>>}

EntryLists == UNION {[1..k -> Entries] : k \in 0..MaxEntries}

DepthBodies ==
    {[OkDepth EXCEPT !.buy = l, !.sell = l, !.sell_ok = ok] :
        l \in EntryLists, ok \in BOOLEAN}

InitDepth ==
    /\ RelayInit /\ SentInit /\ recording = FALSE
    /\ arg \in DepthBodies
    /\ res = <<>>

ParseDepth ==
    /\ res = <<>>
    /\ LET d == DepthStage(arg)
       IN  res' = <<[exc |-> d.exc,
                     payload |->
                         IF d.exc = "none" \/ DepthCatches(d.exc)
                         THEN <<Payload(CURRENCY_PAIRS[1], OkTicker, d, 1)>>
                         ELSE <<>>]>>
    /\ UNCHANGED <<relay_vars, arg, sent_vars>>

NextDepth == ParseDepth

SpecDepth == InitDepth /\ [][NextDepth]_vars

\* ------------------------------------------------------------ properties
\* The position of a pair in CURRENCY_PAIRS.
PairIndex(symbol) == CHOOSE i \in 1..Len(CURRENCY_PAIRS) : CURRENCY_PAIRS[i] = symbol

\* Every fetch of the cycle has returned and gather() has not yet.
CycleOver == ppc = "gather" /\ \A s \in Symbols : fpc[s] \in {"done", "raised"}

\* This cycle's ticker response of the pair was a failing one.
TickerFailed(s) == ticker_in[s] \in TickerKinds \ {"ok"}

\* C1: when a publish has ended, delivery was attempted to every subscriber
\* of the registry copy it started with: none is left unvisited, whatever
\* failed on the way.
C1_EveryListedSubscriberAttempted ==
    \A s \in Symbols :
        (fpc[s] = "done" /\ message[s] # <<>>) => pending[s] = {}

\* C2: no removal of a subscriber raises, in the broadcast loop or in the
\* connection handler, and a subscriber whose handler has ended is not in the
\* registry.
C2_RemovalNeverRaises ==
    /\ \A s \in Symbols : caught[s] # "KeyError"
    /\ \A c \in Clients : cpc[c] = "closed" => c \notin connected_clients

\* C3: no broadcast message is sent to a subscriber that is still inside its
\* replay loop.
C3_NoLiveDuringReplay ==
    \A s \in Symbols : fpc[s] = "sending" => cpc[cur[s]] # "replay"

ReplayInOrder(c) ==
    \A i, j \in 1..Len(replayed[c]) :
        i < j => PairIndex(replayed[c][i].symbol) < PairIndex(replayed[c][j].symbol)

ReplaySkipsEmpty(c) == \A i \in 1..Len(replayed[c]) : ~replayed[c][i].empty

ReplayedPairs(c) == {replayed[c][i].symbol : i \in 1..Len(replayed[c])}

\* C4: a replay sends the pairs in CURRENCY_PAIRS order, each at most once
\* and never one whose cache entry is empty; a replay loop that runs to its
\* end has sent every pair that was cached when the subscriber registered.
C4_ReplayOrderedAndComplete ==
    /\ [](\A c \in Clients : ReplayInOrder(c) /\ ReplaySkipsEmpty(c))
    /\ [][\A c \in Clients :
            (cpc[c] = "replay" /\ cpc'[c] = "open")
                => cached_at_reg[c] \subseteq ReplayedPairs(c)]_vars

\* C4 witness: every configured pair was cached when a subscriber registered
\* and its replay has sent them all.
C4_Witness ==
    \E c \in Clients :
        /\ cpc[c] = "replay"
        /\ cached_at_reg[c] = Symbols
        /\ Len(replayed[c]) = Len(CURRENCY_PAIRS)

\* C5: after a cycle in which the ticker stage failed for pair a and
\* succeeded for pair b, a's cache entry is the one from before the cycle,
\* b's cache entry is the snapshot of this cycle, and no fetch raised into
\* the producer loop.
C5_TickerFailureIsolated ==
    CycleOver =>
        \A a, b \in Symbols :
            (TickerFailed(a) /\ ticker_in[b] = "ok") =>
                /\ current_data[a] = cycle_start_data[a]
                /\ current_data[b] # <<>>
                /\ current_data[b][1].timestamp = cycle
                /\ \A s \in Symbols : fpc[s] # "raised"

\* The ticker-derived fields of a payload are those of the ticker response.
TickerFieldsOf(p, t) ==
    /\ p.price = t.last.val
    /\ p.high_price = t.high.val
    /\ p.low_price = t.low.val
    /\ p.volume_24h = t.vol_idr.val

\* C6: after a depth response with an HTTP error status the fetch holds a
\* payload with the ticker's fields and two empty order-book sides, the cache
\* holds that payload, and the broadcast loop runs over the registry to its
\* end.
C6_DepthHttpErrorDegrades ==
    \A s \in Symbols :
        depth_in[s] = "http_error" =>
            /\ message[s] # <<>>
            /\ TickerFieldsOf(message[s][1], TickerResponse(ticker_in[s]))
            /\ message[s][1].symbol = s
            /\ message[s][1].buy_orders = <<>>
            /\ message[s][1].sell_orders = <<>>
            /\ current_data[s] = message[s]
            /\ caught[s] = "none"
            /\ fpc[s] \in {"sending", "done"}
            /\ fpc[s] = "done" => pending[s] = {}

\* C6 witness: the degraded snapshot is on its way to a subscriber.
C6_Witness ==
    \E s \in Symbols :
        /\ depth_in[s] = "http_error"
        /\ fpc[s] = "sending"
        /\ cur[s] \in connected_clients

\* C7: after any failing depth response, a timeout included, the fetch holds
\* a payload with two empty order-book sides and the cache holds it.
C7_EveryDepthErrorDegrades ==
    \A s \in Symbols :
        depth_in[s] \in DepthErrorKinds =>
            /\ message[s] # <<>>
            /\ message[s][1].buy_orders = <<>>
            /\ message[s][1].sell_orders = <<>>
            /\ current_data[s] = message[s]

\* C8: after a cycle, the cache entry of every pair is the snapshot of the
\* last cycle whose ticker stage succeeded for it, and is empty when there
\* was none.
C8_CacheIsLatestTickerSuccess ==
    CycleOver =>
        \A s \in Symbols :
            IF last_ticker_ok[s] = 0 THEN current_data[s] = <<>>
            ELSE /\ current_data[s] # <<>>
                 /\ current_data[s][1].timestamp = last_ticker_ok[s]

\* C9: while a broadcast message of a pair is being sent, the cache entry of
\* the pair is the snapshot the message carries.
C9_CacheHoldsPublished ==
    \A s \in Symbols : fpc[s] = "sending" => current_data[s] = message[s]

\* C9 witness: a second-or-later send of one publish is in flight.
C9_Witness ==
    \E s \in Symbols :
        /\ fpc[s] = "sending"
        /\ pending[s] = {}
        /\ Cardinality(connected_clients) >= 2

\* C10: in a cycle where the ticker stage of a pair failed, its fetch has
\* ended without building or sending a payload, and the cache entry of the
\* pair, which is all a replay can send, is the one from before the cycle.
C10_NoLiveAfterTickerFailure ==
    \A s \in Symbols :
        TickerFailed(s) =>
            /\ fpc[s] = "done"
            /\ message[s] = <<>>
            /\ cur[s] = 0
            /\ depth_in[s] = "none"
            /\ current_data[s] = cycle_start_data[s]

\* C10 witness: a subscriber is replayed the old snapshot of a pair in a
\* cycle where the ticker stage of that pair failed.
C10_Witness ==
    \E s \in Symbols, c \in Clients :
        /\ TickerFailed(s)
        /\ cpc[c] = "replay"
        /\ CURRENCY_PAIRS[ridx[c]] = s
        /\ current_data[s] # <<>>

\* The snapshot a parsing stage produced.
Parsed == res # <<>> /\ res[1].payload # <<>>
Snapshot == res[1].payload[1]

NonIncreasing(orders) ==
    \A i \in 1..Len(orders), j \in 1..Len(orders) :
        i < j => orders[i][1] >= orders[j][1]
NonDecreasing(orders) ==
    \A i \in 1..Len(orders), j \in 1..Len(orders) :
        i < j => orders[i][1] <= orders[j][1]

\* C11: in every snapshot, buy_orders is sorted non-increasing by price and
\* sell_orders non-decreasing by price, and each has at most ORDER_BOOK_LIMIT
\* entries, whatever the order and the number of the entries of the depth
\* response.
C11_OrderBookSortedAndCapped ==
    Parsed =>
        /\ NonIncreasing(Snapshot.buy_orders)
        /\ Len(Snapshot.buy_orders) <= ORDER_BOOK_LIMIT
        /\ NonDecreasing(Snapshot.sell_orders)
        /\ Len(Snapshot.sell_orders) <= ORDER_BOOK_LIMIT

\* A snapshot built from a response with more than ORDER_BOOK_LIMIT entries,
\* the first two in neither order.
C11_Witness ==
    /\ Parsed
    /\ Len(arg.buy) > ORDER_BOOK_LIMIT
    /\ arg.buy[1][1] < arg.buy[2][1]
    /\ arg.buy[2][1] > arg.buy[3][1]
    /\ Len(Snapshot.buy_orders) = ORDER_BOOK_LIMIT
    /\ Len(Snapshot.sell_orders) = ORDER_BOOK_LIMIT

\* r is n/d in hundredths, rounded to the nearest.
IsRounded(r, n, d) ==
    LET diff == r * d - n * 10000
    IN  2 * (IF diff < 0 THEN -diff ELSE diff) <= d

\* C12: percentage_change is (last-low)/low*100 if last > 0 and low > 0,
\* otherwise (last-high)/high*100 if last > 0 and high > 0, otherwise 0.
C12_PercentageBasis ==
    Parsed =>
        LET last == FloatOf(arg.last)
            low == FloatOf(arg.low)
            high == FloatOf(arg.high)
            r == Snapshot.percentage_change
        IN  IF last > 0 /\ low > 0 THEN IsRounded(r, last - low, low)
            ELSE IF last > 0 /\ high > 0 THEN IsRounded(r, last - high, high)
            ELSE r = 0

\* last=11, low=0, high=12 gives -8.33.
C12_Witness ==
    /\ Parsed
    /\ arg.last = Num(11) /\ arg.low = Num(0) /\ arg.high = Num(12)
    /\ Snapshot.percentage_change = -833

\* C13: volume_24h is the vol_idr value when the ticker has that field,
\* otherwise the volume value when the ticker has that field, otherwise 0.
C13_VolumeFallback ==
    Parsed =>
        Snapshot.volume_24h =
            IF arg.vol_idr.present THEN arg.vol_idr.val
            ELSE IF arg.volume.present THEN arg.volume.val
            ELSE 0

\* Both fields present with different values: vol_idr wins.
C13_Witness ==
    /\ Parsed
    /\ arg.vol_idr = Num(5000) /\ arg.volume = Num(3000)
    /\ Snapshot.volume_24h = 5000
\* C17: when the depth body has no usable buy field, buy_orders is empty
\* while sell_orders is built from the body, and the other way round; the
\* fetch goes on, caches the snapshot and publishes it.
C17_SidesValidatedIndependently ==
    \A s \in Symbols :
        depth_in[s] \in {"no_buy", "no_sell"} =>
            /\ message[s] # <<>>
            /\ message[s][1].buy_orders =
                   IF depth_in[s] = "no_buy" THEN <<>>
                   ELSE << <<3, 5>>, <<2, 5>>, <<1, 5>> >>
            /\ message[s][1].sell_orders =
                   IF depth_in[s] = "no_sell" THEN <<>>
                   ELSE << <<4, 5>>, <<5, 5>>, <<6, 5>> >>
            /\ current_data[s] = message[s]
            /\ caught[s] = "none"
            /\ fpc[s] \in {"sending", "done"}
            /\ fpc[s] = "done" => pending[s] = {}

\* One pair's snapshot without a buy side is on its way to a subscriber,
\* the other pair's went out without a sell side.
C17_Witness ==
    \E s, t \in Symbols :
        /\ depth_in[s] = "no_buy" /\ fpc[s] = "sending"
        /\ cur[s] \in connected_clients
        /\ message[s][1].sell_orders # <<>>
        /\ depth_in[t] = "no_sell" /\ fpc[t] = "done"
        /\ message[t][1].buy_orders # <<>>
\* C14: gather() returns only when every pair's fetch of the cycle has ended,
\* deliveries included; a cycle starts only from the producer's start or its
\* sleep, with no fetch in flight; so a pair's fetch starts only when the
\* pair has none in flight.
C14_CyclesNeverOverlap ==
    [][/\ (ppc = "gather" /\ ppc' # "gather") =>
              \A s \in Symbols : fpc[s] \in {"done", "raised"}
       /\ cycle' # cycle =>
              /\ ppc \in {"init", "sleep"}
              /\ \A s \in Symbols : fpc[s] = "idle"
       /\ \A s \in Symbols :
              (fpc'[s] = "ticker" /\ fpc[s] # "ticker") => fpc[s] = "idle"]_vars

\* The second cycle is running after a first one that delivered to a
\* subscriber and lost it.
C14_Witness ==
    /\ cycle = 2
    /\ \E s \in Symbols : fpc[s] \in {"depth", "sending"}
    /\ \E c \in Clients : cpc[c] = "closed"
    /\ \E s \in Symbols : current_data[s] # <<>> /\ Stamp(current_data[s]) = 1
\* C15: no exception leaves a fetch, so gather() never raises into the
\* producer loop, and from every cycle the loop reaches the next one,
\* whatever the tickers, the depths and the deliveries of the cycle did.
C15_ProducerAlwaysProgresses ==
    /\ [](ppc # "dead" /\ \A s \in Symbols : fpc[s] # "raised")
    /\ <>(cycle = LiveCycles)

\* The next cycle runs after a cycle in which a ticker failed, and a
\* delivery of it has just failed on a subscriber already removed.
C15_Witness ==
    /\ cycle = 2
    /\ ppc = "gather"
    /\ \E s \in Symbols : last_ticker_ok[s] = 0 /\ ticker_in[s] = "timeout"
    /\ \E s \in Symbols : caught[s] = "KeyError"
\* C16: a subscriber enters the registry only in the step that accepts its
\* connection, which happens once; once its handler has ended, however it
\* ended, the subscriber is not in the registry, and so never again.
C16_RegistryHoldsOnlyOpenHandlers ==
    /\ [](\A c \in Clients :
             cpc[c] \in {"init", "closed"} => c \notin connected_clients)
    /\ [][\A c \in Clients :
             /\ (c \notin connected_clients /\ c \in connected_clients') =>
                    (cpc[c] = "init" /\ cpc'[c] # "init")
             /\ cpc[c] # "init" => cpc'[c] # "init"
             /\ cpc[c] = "closed" => cpc'[c] = "closed"]_vars

\* A handler has ended while another subscriber is registered and up.
C16_Witness ==
    \E c, d \in Clients :
        /\ cpc[c] = "closed"
        /\ c \notin connected_clients
        /\ d \in connected_clients /\ alive[d]
\* C18: for every subscriber and pair, each send issued to the subscriber,
\* by the replay loop or by a broadcast, carries a snapshot of the pair at
\* least as new as the one the send before it carried.
C18_FreshnessMonotonic ==
    [][\A c \in Clients, s \in Symbols :
          last_sent'[c][s] >= last_sent[c][s]]_vars

\* A subscriber was replayed the first cycle's snapshot of a pair and is
\* being sent the second cycle's.
C18_Witness ==
    \E c \in Clients, s \in Symbols :
        /\ cycle = 2
        /\ fpc[s] = "sending" /\ cur[s] = c
        /\ last_sent[c][s] = 2
        /\ cpc[c] = "replay"

\* C19: in a cycle a subscriber is sent at most one broadcast message of a
\* pair; a delivery that failed is not issued again.
C19_AtMostOneLivePerCycle ==
    \A c \in Clients, s \in Symbols : live_count[c][s] <= 1

\* A delivery of the cycle failed and the pair's publish has ended.
C19_Witness ==
    \E c \in Clients, s \in Symbols :
        /\ live_count[c][s] = 1
        /\ ~alive[c]
        /\ c \notin connected_clients
        /\ fpc[s] = "done"
        /\ ppc = "gather"
====
